---- MODULE Spec2Model ----
(***************************************************************************)
(* Model of Nifty50_base.py: the fetch - validate - resolve - persist      *)
(* pipeline.  One run of the script is one behaviour: main calls           *)
(* fetch_stock_data (Trading-date oracle, then the per-symbol loop with    *)
(* fetch_with_retry and validate_stock_data, then the date correction),    *)
(* then save_to_json_atomic, then sys.exit.                                *)
(*                                                                         *)
(* Representation.                                                         *)
(*   - A date string 'YYYY-MM-DD' is the tuple <<y, m, d>>; Python's       *)
(*     string comparison of zero-padded ISO dates is the lexicographic     *)
(*     comparison of the tuple (StrLess).                                  *)
(*   - A provider price is an integer number of thousandths of a rupee,    *)
(*     or NaN, or None (missing).  After round(float(x), 2) a price is an  *)
(*     integer number of hundredths, or NaN.                               *)
(*   - A symbol string is the sequence of its parts, <<"TCS", ".NS">>.     *)
(*   - A file is [exists, content]; content is a sequence of chunks.       *)
(*   - Time is in whole seconds.                                           *)
(* The environment decides what the provider returns, how long a query     *)
(* takes, and whether a filesystem call raises OSError.                    *)
(***************************************************************************)
EXTENDS Integers, Sequences, FiniteSets, TLC

(***************************************************************************)
(* Bounds of the model                                                     *)
(***************************************************************************)
\* Number of symbols of the universe that the model iterates over.
NumSymbols == 3
\* Largest max_retries a stand-alone call of fetch_with_retry is given.
MaxRetriesBound == 3

(***************************************************************************)
(* Program constants                                                       *)
(***************************************************************************)
DefaultMaxRetries == 2
DefaultPerSymbolTimeout == 15
BackoffSeconds == 2
PriceCeiling == 100000
LowSuccessThreshold == 40
FallbackDays == 7
\* The current dates get_actual_trading_date is called on: this many days back.
OracleDays == 40

\* A provider value or a record field: a number, not-a-number, or missing.
Num(x) == [t |-> "num", v |-> x]
NaN == [t |-> "nan", v |-> 0]
None == [t |-> "none", v |-> 0]
IsNum(x) == x.t = "num"

\* The universe, in source order (the model iterates over its first NumSymbols).
AllSymbols ==
    << <<"RELIANCE", ".NS">>, <<"TCS", ".NS">>, <<"HDFCBANK", ".NS">>,
       <<"INFY", ".NS">>, <<"ICICIBANK", ".NS">>, <<"HINDUNILVR", ".NS">> >>

NIFTY_50_SYMBOLS == SubSeq(AllSymbols, 1, NumSymbols)

NSE_HOLIDAYS_2025 ==
    { <<2025, 1, 26>>, <<2025, 2, 26>>, <<2025, 3, 14>>, <<2025, 3, 31>>,
      <<2025, 4, 10>>, <<2025, 4, 14>>, <<2025, 4, 18>>, <<2025, 5, 1>>,
      <<2025, 6, 7>>, <<2025, 7, 7>>, <<2025, 8, 15>>, <<2025, 8, 16>>,
      <<2025, 8, 27>>, <<2025, 10, 2>>, <<2025, 10, 21>>, <<2025, 10, 22>>,
      <<2025, 10, 23>>, <<2025, 11, 5>>, <<2025, 12, 25>> }

(***************************************************************************)
(* Dates                                                                   *)
(***************************************************************************)
\* Python str comparison of two 'YYYY-MM-DD' strings.
StrLess(a, b) ==
    \/ a[1] < b[1]
    \/ a[1] = b[1] /\ a[2] < b[2]
    \/ a[1] = b[1] /\ a[2] = b[2] /\ a[3] < b[3]

IsLeap(y) == (y % 4 = 0 /\ y % 100 # 0) \/ y % 400 = 0

DaysInMonth(y, m) ==
    IF m = 2 THEN (IF IsLeap(y) THEN 29 ELSE 28)
    ELSE IF m \in {4, 6, 9, 11} THEN 30 ELSE 31

RECURSIVE DaysBeforeMonth(_, _)
DaysBeforeMonth(y, m) ==
    IF m = 1 THEN 0 ELSE DaysBeforeMonth(y, m - 1) + DaysInMonth(y, m - 1)

\* datetime.toordinal(): 0001-01-01 is day 1.
ToOrdinal(dt) ==
    LET y1 == dt[1] - 1
    IN  y1 * 365 + (y1 \div 4) - (y1 \div 100) + (y1 \div 400)
        + DaysBeforeMonth(dt[1], dt[2]) + dt[3]

\* datetime.isoweekday(): Monday is 1, Sunday is 7.
Weekday_Iso(dt) == ((ToOrdinal(dt) + 6) % 7) + 1

\* datetime.weekday(): Monday is 0, Sunday is 6.
Weekday(dt) == (ToOrdinal(dt) + 6) % 7

\* dt - timedelta(days=1)
PrevDay(dt) ==
    IF dt[3] > 1 THEN <<dt[1], dt[2], dt[3] - 1>>
    ELSE IF dt[2] > 1 THEN <<dt[1], dt[2] - 1, DaysInMonth(dt[1], dt[2] - 1)>>
    ELSE <<dt[1] - 1, 12, 31>>

\* dt - timedelta(days=k)
RECURSIVE MinusDays(_, _)
MinusDays(dt, k) == IF k = 0 THEN dt ELSE MinusDays(PrevDay(dt), k - 1)

is_market_open(date_str) ==
    IF date_str \in NSE_HOLIDAYS_2025 THEN FALSE
    ELSE IF Weekday(date_str) \in {5, 6} THEN FALSE
    ELSE TRUE

\* The walk stops at the first weekday, holiday or not.
RECURSIVE CalendarWalk_WeekendsOnly(_, _)
CalendarWalk_WeekendsOnly(today, days_back) ==
    IF days_back >= FallbackDays THEN today
    ELSE IF Weekday(MinusDays(today, days_back)) \notin {5, 6}
         THEN MinusDays(today, days_back)
         ELSE CalendarWalk_WeekendsOnly(today, days_back + 1)

\* The calendar fallback of get_actual_trading_date (lines 126 - 133).
RECURSIVE CalendarWalk(_, _)
CalendarWalk(today, days_back) ==
    IF days_back >= FallbackDays THEN today
    ELSE IF is_market_open(MinusDays(today, days_back))
         THEN MinusDays(today, days_back)
         ELSE CalendarWalk(today, days_back + 1)

(***************************************************************************)
(* Provider data                                                           *)
(***************************************************************************)
Row(d, o, h, l, c, vol) ==
    [date |-> d, Open |-> o, High |-> h, Low |-> l, Close |-> c, Volume |-> vol]

D1 == <<2025, 10, 31>>
D2 == <<2025, 11, 10>>
D0 == <<2025, 10, 30>>

\* 1.00 / 2.00 / 1.00 / 100000.004 (rounds to the ceiling), volume 100
RowGood1 == Row(D1, Num(1000), Num(2000), Num(1000), Num(100000004), Num(100))
\* a second good row, later in the year but with a smaller day of month, volume 0
RowGood2 == Row(D2, Num(3000), Num(3000), Num(3000), Num(3000), Num(0))
RowHighLtLow == Row(D2, Num(1000), Num(1000), Num(2000), Num(1000), Num(100))
\* open 0.004 rounds to 0.00
RowTiny == Row(D2, Num(4), Num(2000), Num(1000), Num(1500), Num(100))
RowNegative == Row(D2, Num(1000), Num(2000), Num(0 - 1000), Num(1500), Num(100))
\* close 100000.006 rounds to 100000.01
RowOverCeiling == Row(D2, Num(1000), Num(2000), Num(1000), Num(100000006), Num(100))
RowNaNOpen == Row(D2, NaN, Num(2000), Num(1000), Num(1500), Num(100))
RowNoneClose == Row(D2, Num(1000), Num(2000), Num(1000), None, Num(100))
RowNaNVolume == Row(D2, Num(1000), Num(2000), Num(1000), Num(1500), NaN)
\* an older bar, never the last of a window
RowOlder == Row(D0, Num(5000), Num(5000), Num(5000), Num(5000), Num(100))

ProviderRows ==
    { RowGood1, RowGood2, RowHighLtLow, RowTiny, RowNegative, RowOverCeiling,
      RowNaNOpen, RowNoneClose, RowNaNVolume }

\* A non-empty history window: time-ordered daily bars, the latest last.
Windows == { <<r>> : r \in ProviderRows } \cup { <<RowOlder, RowGood2>> }

\* What one provider query can do: raise, return an empty window, or a window.
Raise == [kind |-> "raise", window |-> <<>>]
Empty == [kind |-> "empty", window |-> <<>>]
Data(w) == [kind |-> "data", window |-> w]
QueryResults == {Raise, Empty} \cup { Data(w) : w \in Windows }

\* Seconds one provider query can take.
QueryDurations == {1, 13, 16}

\* datetime.now() of the run: a Monday, a Sunday, the last of three holidays.
TodaySet == { <<2025, 11, 10>>, <<2025, 11, 9>>, <<2025, 10, 23>> }
\* datetime.now().strftime("%H%M") of the run
NowHMSet == {914, 1530}

(***************************************************************************)
(* Record construction (fetch_stock_data, lines 227 - 237)                 *)
(***************************************************************************)
\* symbol.replace('.NS', '')
StripSuffix(symbol) ==
    LET NotSuffix(part) == part # ".NS" IN SelectSeq(symbol, NotSuffix)

\* history.iloc[-1] / history.index[-1]
Latest(history) == history[Len(history)]

\* round(float(x), 2) of a number of thousandths, in hundredths (half to even);
\* round(nan, 2) is nan.
Round2(x) ==
    IF ~IsNum(x) THEN x
    ELSE LET q == x.v \div 10
             r == x.v % 10
         IN  IF r < 5 THEN Num(q)
             ELSE IF r > 5 THEN Num(q + 1)
             ELSE IF q % 2 = 0 THEN Num(q) ELSE Num(q + 1)

\* float(None) raises TypeError; int(nan) raises ValueError; int(None) TypeError.
BuildRaises(latest) ==
    \/ \E k \in {"Open", "High", "Low", "Close"} : latest[k] = None
    \/ ~IsNum(latest.Volume)

BuildRecord(symbol, history) ==
    LET latest == Latest(history)
    IN  [symbol |-> StripSuffix(symbol),
         company_name |-> StripSuffix(symbol),
         date |-> latest.date,
         open |-> Round2(latest.Open),
         high |-> Round2(latest.High),
         low |-> Round2(latest.Low),
         close |-> Round2(latest.Close),
         volume |-> latest.Volume]

(***************************************************************************)
(* validate_stock_data (lines 135 - 151)                                   *)
(***************************************************************************)
OHLC == {"open", "high", "low", "close"}

\* Python comparisons of floats: every comparison with nan is False.
PyLe(a, b) == IsNum(a) /\ IsNum(b) /\ a.v <= b.v
PyLt(a, b) == IsNum(a) /\ IsNum(b) /\ a.v < b.v
PyGt(a, b) == IsNum(a) /\ IsNum(b) /\ a.v > b.v

\* 100000 rupees in hundredths
CeilingValue == Num(PriceCeiling * 100)

\* A missing key raises KeyError inside the try, which the except turns into
\* False; so does the f-string of the zero-volume warning without 'symbol'.
validate_stock_data(stock_data) ==
    IF ~(OHLC \subseteq DOMAIN stock_data) THEN FALSE
    ELSE IF \E k \in OHLC : stock_data[k] = None THEN FALSE
    ELSE IF \E k \in OHLC : PyLe(stock_data[k], Num(0)) THEN FALSE
    ELSE IF PyLt(stock_data["high"], stock_data["low"]) THEN FALSE
    ELSE IF PyGt(stock_data["close"], CeilingValue) THEN FALSE
    ELSE IF "volume" \notin DOMAIN stock_data THEN FALSE
    ELSE IF stock_data["volume"] = Num(0) /\ "symbol" \notin DOMAIN stock_data
         THEN FALSE
    ELSE TRUE

(***************************************************************************)
(* Date correction (fetch_stock_data, lines 261 - 262)                     *)
(***************************************************************************)
\* max(s["date"] for s in stocks): the first largest string
RECURSIVE MaxDateFrom(_, _, _)
MaxDateFrom(stocks, k, best) ==
    IF k > Len(stocks) THEN best
    ELSE MaxDateFrom(stocks, k + 1,
                     IF StrLess(best, stocks[k].date) THEN stocks[k].date ELSE best)

\* The date of the first record instead of the largest.
MaxDate_First(stocks) == stocks[1].date

MaxDate(stocks) == MaxDateFrom(stocks, 2, stocks[1].date)

(***************************************************************************)
(* Serialisation (json.dump, line 292) and files                           *)
(***************************************************************************)
Header(data) ==
    [chunk |-> "header",
     schema_version |-> data.schema_version,
     fetch_date |-> data.fetch_date,
     fetch_time |-> data.fetch_time,
     market_status |-> data.market_status,
     total_stocks |-> data.total_stocks]

Trailer == [chunk |-> "end"]

\* The chunks json.dump writes, in order; a file is complete iff it holds them all.
Serialize(data) == <<Header(data)>> \o data.stocks \o <<Trailer>>

Absent == [exists |-> FALSE, content |-> <<>>]
File(chunks) == [exists |-> TRUE, content |-> chunks]

\* The snapshot an earlier run left under the same name, and what an
\* interrupted earlier run may have left at the temporary path.
OldSnapshot ==
    [schema_version |-> "1.0", fetch_date |-> D2, fetch_time |-> "earlier",
     market_status |-> "closed", total_stocks |-> 0, stocks |-> <<>>]
OldFile == File(Serialize(OldSnapshot))
StaleTemp == File(<<Header(OldSnapshot)>>)

(***************************************************************************)
(* State                                                                   *)
(***************************************************************************)
VARIABLES
    pc,                 \* position of the (single) thread of the script
    exit_code,          \* Running until sys.exit
    warned,             \* main logged the low-success-rate warning
    \* fetch_stock_data
    date_string,        \* the oracle's provisional date
    all_data,           \* the snapshot being built
    success_count, fail_count, invalid_count,
    i,                  \* enumerate(NIFTY_50_SYMBOLS, 1)
    history,            \* what fetch_with_retry returned
    stock_data,         \* the candidate record
    \* fetch_with_retry
    max_retries, per_symbol_timeout,
    attempt,
    elapsed,            \* time.time() - start
    \* save_to_json_atomic and the output directory
    filename,
    final_file,         \* the file at final_path
    temp_file,          \* the file at temp_path
    \* history of the run (read by the properties only)
    fetched,            \* symbols fetch_with_retry was called for, in order
    outcomes,           \* how each processed symbol ended, in order
    qlog,               \* provider queries of the current fetch_with_retry call
    sleeps,             \* backoff sleeps of the current fetch_with_retry call
    pre_final,          \* the file at final_path before the run
    fs_log,             \* filesystem mutations of save_to_json_atomic, in order
    failed_at,          \* the step of save_to_json_atomic that raised
    remove_failed,      \* os.remove(temp_path) raised and was swallowed
    pre_temp,           \* the file at temp_path before the run
    log_lines,          \* what __main__ and save_to_json_atomic logged, in order
    paces,              \* pacing sleeps of the per-symbol loop so far
    oracle_calls,       \* calls of get_actual_trading_date so far
    save_calls,         \* calls of save_to_json_atomic so far
    interrupted_at,     \* where a KeyboardInterrupt arrived ("" if none did)
    \* the stand-alone specifications of the pure functions
    fn_arg,             \* the argument the function is applied to
    fn_ret              \* what it returned

fetchVars == <<date_string, all_data, success_count, fail_count, invalid_count,
               i, history, stock_data>>
retryVars == <<max_retries, per_symbol_timeout, attempt, elapsed, qlog, sleeps>>
loopHist == <<fetched, outcomes>>
fsVars == <<filename, final_file, temp_file, pre_final, fs_log, failed_at,
            remove_failed>>
runHist == <<log_lines, paces, oracle_calls, save_calls>>
auxVars == <<pre_temp, interrupted_at, fn_arg, fn_ret>>
vars == <<pc, exit_code, warned, fetchVars, retryVars, loopHist, fsVars,
          runHist, auxVars>>

\* exit_code before sys.exit is reached
Running == 0 - 1
NoHistory == [kind |-> "none", window |-> <<>>]
NoRecord == [symbol |-> <<>>]
NoSnapshot ==
    [schema_version |-> "", fetch_date |-> <<0, 0, 0>>, fetch_time |-> "",
     market_status |-> "", total_stocks |-> 0, stocks |-> <<>>]
NoName == <<>>
NoArg == <<>>
NoRet == <<>>

Init ==
    /\ pc = "main"
    /\ exit_code = Running
    /\ warned = FALSE
    /\ date_string = <<0, 0, 0>>
    /\ all_data = NoSnapshot
    /\ success_count = 0 /\ fail_count = 0 /\ invalid_count = 0
    /\ i = 0
    /\ history = NoHistory
    /\ stock_data = NoRecord
    /\ max_retries = 0 /\ per_symbol_timeout = 0 /\ attempt = 0 /\ elapsed = 0
    /\ filename = NoName
    /\ final_file \in {Absent, OldFile}
    /\ temp_file \in {Absent, StaleTemp}
    /\ fetched = <<>> /\ outcomes = <<>>
    /\ qlog = <<>> /\ sleeps = 0
    /\ pre_final = final_file
    /\ fs_log = <<>> /\ failed_at = "" /\ remove_failed = FALSE
    /\ pre_temp = temp_file
    /\ log_lines = <<>> /\ paces = 0 /\ oracle_calls = 0 /\ save_calls = 0
    /\ interrupted_at = ""
    /\ fn_arg = NoArg /\ fn_ret = NoRet

(***************************************************************************)
(* get_actual_trading_date (lines 109 - 133)                               *)
(***************************************************************************)
get_actual_trading_date(probe, today) ==
    IF probe.kind = "data" THEN Latest(probe.window).date
    ELSE CalendarWalk(today, 0)

MarketStatus(now_hm) == IF 915 <= now_hm /\ now_hm <= 1530 THEN "open" ELSE "closed"

(***************************************************************************)
(* fetch_stock_data (lines 181 - 276)                                      *)
(***************************************************************************)
\* Lines 186 - 221: the oracle, then the empty snapshot and the counters.
FetchStockDataBegin ==
    /\ pc = "main"
    /\ \E probe \in QueryResults, today \in TodaySet, now_hm \in NowHMSet :
         /\ date_string' = get_actual_trading_date(probe, today)
         /\ all_data' = [schema_version |-> "1.0",
                         fetch_date |-> date_string',
                         fetch_time |-> "now",
                         market_status |-> MarketStatus(now_hm),
                         total_stocks |-> 0,
                         stocks |-> <<>>]
    /\ success_count' = 0 /\ fail_count' = 0 /\ invalid_count' = 0
    /\ i' = 1
    /\ oracle_calls' = oracle_calls + 1
    /\ pc' = "loop"
    /\ UNCHANGED <<log_lines, paces, save_calls, auxVars, exit_code, warned,
                   history, stock_data, retryVars, loopHist, fsVars>>

\* Lines 222 - 225 and 155: the next symbol; fetch_with_retry(symbol) starts.
LoopNext ==
    /\ pc = "loop"
    /\ i <= Len(NIFTY_50_SYMBOLS)
    /\ max_retries' = DefaultMaxRetries
    /\ per_symbol_timeout' = DefaultPerSymbolTimeout
    /\ attempt' = 0
    /\ elapsed' = 0
    /\ qlog' = <<>>
    /\ sleeps' = 0
    /\ fetched' = Append(fetched, NIFTY_50_SYMBOLS[i])
    /\ pc' = "fwr_top"
    /\ UNCHANGED <<runHist, auxVars, exit_code, warned, fetchVars, outcomes,
                   fsVars>>

(***************************************************************************)
(* fetch_with_retry (lines 153 - 175)                                      *)
(***************************************************************************)
\* The budget check left out.
TimedOut_Never(el, timeout) == FALSE

\* Line 157
TimedOut(el, timeout) == el > timeout

\* A backoff after the last attempt as well.
AttemptsRemain_OffByOne(att, retries) == att < retries

\* Lines 165 and 169
AttemptsRemain(att, retries) == att < retries - 1

FwrReturn(result) ==
    /\ history' = result
    /\ pc' = "fetched"

\* Line 156 falls through, line 175.
FwrExhausted ==
    /\ pc = "fwr_top"
    /\ attempt >= max_retries
    /\ FwrReturn(NoHistory)
    /\ UNCHANGED <<runHist, auxVars, exit_code, warned, date_string, all_data,
                   success_count, fail_count, invalid_count, i, stock_data,
                   retryVars, loopHist, fsVars>>

\* Lines 157 - 159
FwrTimeout ==
    /\ pc = "fwr_top"
    /\ attempt < max_retries
    /\ TimedOut(elapsed, per_symbol_timeout)
    /\ FwrReturn(NoHistory)
    /\ UNCHANGED <<runHist, auxVars, exit_code, warned, date_string, all_data,
                   success_count, fail_count, invalid_count, i, stock_data,
                   retryVars, loopHist, fsVars>>

\* Lines 160 - 174: one provider query and what follows from its outcome.
FwrQuery ==
    /\ pc = "fwr_top"
    /\ attempt < max_retries
    /\ ~TimedOut(elapsed, per_symbol_timeout)
    /\ \E d \in QueryDurations, res \in QueryResults :
         /\ elapsed' = elapsed + d
         /\ qlog' = Append(qlog, [start |-> elapsed, took |-> d, res |-> res])
         /\ \/ /\ res.kind = "data"
               /\ FwrReturn(res)
               /\ UNCHANGED attempt
            \/ /\ res.kind = "empty"
               /\ AttemptsRemain(attempt, max_retries)
               /\ pc' = "fwr_sleep"
               /\ UNCHANGED <<attempt, history>>
            \/ /\ res.kind = "empty"
               /\ ~AttemptsRemain(attempt, max_retries)
               /\ attempt' = attempt + 1
               /\ pc' = "fwr_top"
               /\ UNCHANGED history
            \/ /\ res.kind = "raise"
               /\ AttemptsRemain(attempt, max_retries)
               /\ pc' = "fwr_sleep"
               /\ UNCHANGED <<attempt, history>>
            \/ /\ res.kind = "raise"
               /\ ~AttemptsRemain(attempt, max_retries)
               /\ FwrReturn(NoHistory)
               /\ UNCHANGED attempt
    /\ UNCHANGED <<runHist, auxVars, exit_code, warned, date_string, all_data,
                   success_count, fail_count, invalid_count, i, stock_data,
                   max_retries, per_symbol_timeout, sleeps, loopHist, fsVars>>

\* Lines 167 and 171: time.sleep(2), then the next iteration.
FwrBackoff ==
    /\ pc = "fwr_sleep"
    /\ elapsed' = elapsed + BackoffSeconds
    /\ sleeps' = sleeps + 1
    /\ attempt' = attempt + 1
    /\ pc' = "fwr_top"
    /\ UNCHANGED <<runHist, auxVars, exit_code, warned, fetchVars, max_retries,
                   per_symbol_timeout, qlog, loopHist, fsVars>>

(***************************************************************************)
(* fetch_stock_data: the loop body after fetch_with_retry returned         *)
(***************************************************************************)
\* The fetch_with_retry locals are gone once its result has been used.
DropRetryLocals ==
    /\ max_retries' = 0 /\ per_symbol_timeout' = 0 /\ attempt' = 0
    /\ elapsed' = 0 /\ qlog' = <<>> /\ sleeps' = 0

\* The exception leaves the loop and reaches main's except clause.
OnException_Abort ==
    /\ fail_count' = fail_count + 1
    /\ outcomes' = Append(outcomes, "exception")
    /\ i' = i
    /\ pc' = "main_except"

\* The failure is logged but not counted.
OnException_NoCount ==
    /\ fail_count' = fail_count
    /\ outcomes' = Append(outcomes, "exception")
    /\ i' = i + 1
    /\ pc' = "loop"

\* Lines 252 - 255: the except clause of the loop body; the next symbol follows.
OnException ==
    /\ fail_count' = fail_count + 1
    /\ outcomes' = Append(outcomes, "exception")
    /\ i' = i + 1
    /\ pc' = "loop"

\* Lines 226, 247 - 250: no data
NoDataBranch ==
    /\ pc = "fetched"
    /\ history.kind = "none"
    /\ fail_count' = fail_count + 1
    /\ outcomes' = Append(outcomes, "nodata")
    /\ pc' = "pace"
    /\ DropRetryLocals
    /\ UNCHANGED <<runHist, auxVars, exit_code, warned, date_string, all_data,
                   success_count, invalid_count, i, history, stock_data, fetched,
                   fsVars>>

\* Lines 226 - 237: the candidate record is built
BuildOk ==
    /\ pc = "fetched"
    /\ history.kind = "data"
    /\ ~BuildRaises(Latest(history.window))
    /\ stock_data' = BuildRecord(NIFTY_50_SYMBOLS[i], history.window)
    /\ pc' = "validate"
    /\ DropRetryLocals
    /\ UNCHANGED <<runHist, auxVars, exit_code, warned, date_string, all_data,
                   success_count, fail_count, invalid_count, i, history, fetched,
                   outcomes, fsVars>>

\* Lines 226 - 237 raise (TypeError, ValueError); lines 252 - 255 catch it.
BuildFails ==
    /\ pc = "fetched"
    /\ history.kind = "data"
    /\ BuildRaises(Latest(history.window))
    /\ OnException
    /\ history' = NoHistory
    /\ DropRetryLocals
    /\ UNCHANGED <<runHist, auxVars, exit_code, warned, date_string, all_data,
                   success_count, invalid_count, stock_data, fetched, fsVars>>

\* The accepted record is put in front of the list.
AcceptRecord_Prepend ==
    /\ pc = "validate"
    /\ validate_stock_data(stock_data)
    /\ all_data' = [all_data EXCEPT !.stocks = <<stock_data>> \o @]
    /\ success_count' = success_count + 1
    /\ outcomes' = Append(outcomes, "success")
    /\ pc' = "pace"
    /\ UNCHANGED <<runHist, auxVars, exit_code, warned, date_string,
                   fail_count, invalid_count, i, history, stock_data,
                   retryVars, fetched, fsVars>>

\* Lines 238 - 242
AcceptRecord ==
    /\ pc = "validate"
    /\ validate_stock_data(stock_data)
    /\ all_data' = [all_data EXCEPT !.stocks = Append(@, stock_data)]
    /\ success_count' = success_count + 1
    /\ outcomes' = Append(outcomes, "success")
    /\ pc' = "pace"
    /\ UNCHANGED <<runHist, auxVars, exit_code, warned, date_string, fail_count,
                   invalid_count, i, history, stock_data, retryVars, fetched,
                   fsVars>>

\* Lines 243 - 246
RejectRecord ==
    /\ pc = "validate"
    /\ ~validate_stock_data(stock_data)
    /\ invalid_count' = invalid_count + 1
    /\ outcomes' = Append(outcomes, "invalid")
    /\ pc' = "pace"
    /\ UNCHANGED <<runHist, auxVars, exit_code, warned, date_string, all_data,
                   success_count, fail_count, i, history, stock_data, retryVars,
                   fetched, fsVars>>

\* The loop goes round without moving to the next symbol.
Pace_NoAdvance ==
    /\ pc = "pace"
    /\ history' = NoHistory
    /\ stock_data' = NoRecord
    /\ paces' = paces + 1
    /\ pc' = "loop"
    /\ UNCHANGED <<log_lines, oracle_calls, save_calls, auxVars, exit_code,
                   warned, date_string, all_data, success_count, fail_count,
                   invalid_count, i, retryVars, loopHist, fsVars>>

\* Line 251: the pacing sleep; then the next iteration.
Pace ==
    /\ pc = "pace"
    /\ i' = i + 1
    /\ history' = NoHistory
    /\ stock_data' = NoRecord
    /\ paces' = paces + 1
    /\ pc' = "loop"
    /\ UNCHANGED <<log_lines, oracle_calls, save_calls, auxVars, exit_code,
                   warned, date_string, all_data, success_count, fail_count,
                   invalid_count, retryVars, loopHist, fsVars>>

\* Every row that came back counted, accepted or not.
TotalStocks_Processed == success_count + invalid_count

\* Line 258
TotalStocks == success_count

\* Lines 257 - 276: after the loop
Finalize ==
    /\ pc = "loop"
    /\ i > Len(NIFTY_50_SYMBOLS)
    /\ all_data' = [all_data EXCEPT
                      !.total_stocks = TotalStocks,
                      !.fetch_date = IF all_data.stocks # <<>>
                                     THEN MaxDate(all_data.stocks) ELSE @]
    /\ pc' = "returned"
    /\ UNCHANGED <<runHist, auxVars, exit_code, warned, date_string,
                   success_count, fail_count, invalid_count, i, history,
                   stock_data, retryVars, loopHist, fsVars>>

(***************************************************************************)
(* main (lines 318 - 364)                                                  *)
(***************************************************************************)
\* The check of line 328 does not stop the run: the empty snapshot is saved.
MainNoStocks_FallThrough ==
    /\ pc = "returned"
    /\ all_data.total_stocks = 0
    /\ log_lines' = Append(log_lines, "No stocks fetched - exiting with error")
    /\ save_calls' = save_calls + 1
    /\ filename' = <<"nifty50_", all_data.fetch_date, ".json">>
    /\ pc' = "save_open"
    /\ UNCHANGED <<paces, oracle_calls, auxVars, exit_code, warned, fetchVars,
                   retryVars, loopHist, final_file, temp_file, pre_final,
                   fs_log, failed_at, remove_failed>>

\* Lines 328 - 338
MainNoStocks ==
    /\ pc = "returned"
    /\ all_data.total_stocks = 0
    /\ log_lines' = Append(log_lines, "No stocks fetched - exiting with error")
    /\ exit_code' = 1
    /\ pc' = "exited"
    /\ UNCHANGED <<paces, oracle_calls, save_calls, auxVars, warned, fetchVars,
                   retryVars, loopHist, fsVars>>

\* The name carries the date the oracle gave at the start of the run.
FileName_Provisional(data) == <<"nifty50_", date_string, ".json">>

\* f"nifty50_{data['fetch_date']}.json"
FileName(data) == <<"nifty50_", data.fetch_date, ".json">>

\* Lines 340 - 345 and 280 - 288: save_to_json_atomic(stock_data) is entered.
MainCallSave ==
    /\ pc = "returned"
    /\ all_data.total_stocks # 0
    /\ warned' = (all_data.total_stocks < LowSuccessThreshold)
    /\ log_lines' = IF warned' THEN Append(log_lines, "Low success rate")
                             ELSE log_lines
    /\ save_calls' = save_calls + 1
    /\ filename' = FileName(all_data)
    /\ pc' = "save_open"
    /\ UNCHANGED <<paces, oracle_calls, auxVars, exit_code, fetchVars, retryVars,
                   loopHist, final_file, temp_file, pre_final, fs_log,
                   failed_at, remove_failed>>

\* Lines 347 - 353
MainSuccess ==
    /\ pc = "save_done"
    /\ log_lines' = Append(log_lines, "Script completed successfully")
    /\ exit_code' = 0
    /\ pc' = "exited"
    /\ UNCHANGED <<paces, oracle_calls, save_calls, auxVars, warned, fetchVars,
                   retryVars, loopHist, fsVars>>

\* Lines 360 - 364
MainFatal ==
    /\ pc = "main_except"
    /\ log_lines' = Append(log_lines, "Fatal error")
    /\ exit_code' = 1
    /\ pc' = "exited"
    /\ UNCHANGED <<paces, oracle_calls, save_calls, auxVars, warned, fetchVars,
                   retryVars, loopHist, fsVars>>

(***************************************************************************)
(* save_to_json_atomic (lines 278 - 312)                                   *)
(***************************************************************************)
SaveRaise(step) ==
    /\ failed_at' = step
    /\ pc' = "save_except"

\* Line 291: open(temp_path, 'w') truncates or creates the file, or raises.
SaveOpen ==
    /\ pc = "save_open"
    /\ \/ /\ temp_file' = File(<<>>)
          /\ fs_log' = Append(fs_log, "open")
          /\ pc' = "save_dump"
          /\ UNCHANGED failed_at
       \/ /\ SaveRaise("open")
          /\ UNCHANGED <<temp_file, fs_log>>
    /\ UNCHANGED <<runHist, auxVars, exit_code, warned, fetchVars, retryVars,
                   loopHist, filename, final_file, pre_final, remove_failed>>

\* Lines 291 - 292: json.dump and the close of the with block; a failure
\* leaves whatever had been written.
SaveDump ==
    /\ pc = "save_dump"
    /\ fs_log' = Append(fs_log, "write")
    /\ \/ /\ temp_file' = File(Serialize(all_data))
          /\ pc' = "save_move"
          /\ UNCHANGED failed_at
       \/ /\ \E k \in 0 .. Len(Serialize(all_data)) :
               temp_file' = File(SubSeq(Serialize(all_data), 1, k))
          /\ SaveRaise("dump")
    /\ UNCHANGED <<runHist, auxVars, exit_code, warned, fetchVars, retryVars,
                   loopHist, filename, final_file, pre_final, remove_failed>>

\* The new content is added to what the final path holds.
SaveMove_Merge ==
    /\ pc = "save_move"
    /\ final_file' = File(final_file.content \o temp_file.content)
    /\ temp_file' = Absent
    /\ fs_log' = Append(fs_log, "move")
    /\ pc' = "save_stat"
    /\ UNCHANGED <<runHist, auxVars, exit_code, warned, fetchVars, retryVars,
                   loopHist, filename, pre_final, failed_at, remove_failed>>

\* Line 293: shutil.move within one directory is os.rename: the temporary
\* file takes the final name in one step, or nothing changes and it raises.
SaveMove ==
    /\ pc = "save_move"
    /\ \/ /\ final_file' = temp_file
          /\ temp_file' = Absent
          /\ fs_log' = Append(fs_log, "move")
          /\ pc' = "save_stat"
          /\ UNCHANGED failed_at
       \/ /\ SaveRaise("move")
          /\ UNCHANGED <<final_file, temp_file, fs_log>>
    /\ UNCHANGED <<runHist, auxVars, exit_code, warned, fetchVars, retryVars,
                   loopHist, filename, pre_final, remove_failed>>

\* Lines 295 - 303: os.path.getsize(final_path), the report, the return.
SaveStat ==
    /\ pc = "save_stat"
    /\ \/ /\ pc' = "save_done"
          /\ log_lines' = Append(log_lines, "File saved")
          /\ UNCHANGED failed_at
       \/ /\ SaveRaise("getsize")
          /\ UNCHANGED log_lines
    /\ UNCHANGED <<paces, oracle_calls, save_calls, auxVars, exit_code, warned,
                   fetchVars, retryVars, loopHist, filename, final_file,
                   temp_file, pre_final, fs_log, remove_failed>>

\* The exception is raised again without the cleanup.
SaveExcept_NoCleanup ==
    /\ pc = "save_except"
    /\ pc' = "main_except"
    /\ UNCHANGED <<runHist, auxVars, exit_code, warned, fetchVars, retryVars,
                   loopHist, fsVars>>

\* Lines 305 - 312: the temporary file is removed if it exists (a failure of
\* os.remove is swallowed), and the exception is raised again.
SaveExcept ==
    /\ pc = "save_except"
    /\ \/ /\ ~temp_file.exists
          /\ UNCHANGED <<temp_file, fs_log, remove_failed>>
       \/ /\ temp_file.exists
          /\ temp_file' = Absent
          /\ fs_log' = Append(fs_log, "remove")
          /\ UNCHANGED remove_failed
       \/ /\ temp_file.exists
          /\ remove_failed' = TRUE
          /\ UNCHANGED <<temp_file, fs_log>>
    /\ log_lines' = Append(log_lines, "Failed to save file")
    /\ pc' = "main_except"
    /\ UNCHANGED <<paces, oracle_calls, save_calls, auxVars, exit_code, warned,
                   fetchVars, retryVars, loopHist, filename, final_file,
                   pre_final, failed_at>>

(***************************************************************************)
(* The run                                                                 *)
(***************************************************************************)
Next ==
    \/ FetchStockDataBegin
    \/ LoopNext
    \/ FwrExhausted
    \/ FwrTimeout
    \/ FwrQuery
    \/ FwrBackoff
    \/ NoDataBranch
    \/ BuildOk
    \/ BuildFails
    \/ AcceptRecord
    \/ RejectRecord
    \/ Pace
    \/ Finalize
    \/ MainNoStocks
    \/ MainCallSave
    \/ SaveOpen
    \/ SaveDump
    \/ SaveMove
    \/ SaveStat
    \/ SaveExcept
    \/ MainSuccess
    \/ MainFatal

Spec == Init /\ [][Next]_vars

(***************************************************************************)
(* The run with a KeyboardInterrupt (Ctrl+C)                               *)
(*                                                                         *)
(* One interrupt may arrive while the body of main's try statement (lines  *)
(* 326 - 353) runs.  KeyboardInterrupt is not an Exception, so the clauses *)
(* "except Exception" of lines 123, 149, 168, 252 and 305 let it pass; the *)
(* bare "except:" of line 310 and main's clause of line 355 catch it.      *)
(***************************************************************************)
\* The interpreter exits: the objects of the run are gone, the files stay.
ProcessEnds ==
    /\ date_string' = <<0, 0, 0>>
    /\ all_data' = NoSnapshot
    /\ success_count' = 0 /\ fail_count' = 0 /\ invalid_count' = 0
    /\ i' = 0
    /\ history' = NoHistory
    /\ stock_data' = NoRecord
    /\ DropRetryLocals
    /\ fetched' = <<>> /\ outcomes' = <<>>

\* Lines 355 - 358
MainInterrupted(at) ==
    /\ interrupted_at' = at
    /\ log_lines' = Append(log_lines, "Script interrupted by user")
    /\ exit_code' = 1
    /\ pc' = "exited"
    /\ ProcessEnds

LoopBodyPcs == {"fwr_top", "fwr_sleep", "fetched", "validate", "pace"}

\* The except clause of the loop body catches the interrupt like any error.
InterruptInFetch_Absorbed ==
    /\ interrupted_at = ""
    /\ pc \in LoopBodyPcs
    /\ interrupted_at' = pc
    /\ OnException
    /\ history' = NoHistory
    /\ stock_data' = NoRecord
    /\ DropRetryLocals
    /\ UNCHANGED <<runHist, pre_temp, fn_arg, fn_ret, exit_code, warned,
                   date_string, all_data, success_count, invalid_count,
                   fetched, fsVars>>

\* The interrupt arrives inside fetch_stock_data: in the oracle, in a provider
\* query (line 162), in a backoff (lines 167, 171), in the validation, in the
\* pacing sleep (line 251).  It leaves fetch_with_retry and the loop.
InterruptInFetch ==
    /\ interrupted_at = ""
    /\ pc \in {"main", "loop"} \cup LoopBodyPcs
    /\ MainInterrupted(pc)
    /\ UNCHANGED <<paces, oracle_calls, save_calls, pre_temp, fn_arg, fn_ret,
                   warned, fsVars>>

\* The interrupt arrives in main between the calls (lines 328 - 345), or in
\* save_to_json_atomic before the rename (lines 280 - 289, 293) or after it
\* (lines 295 - 303, 347 - 353): no file changes.
InterruptInMain ==
    /\ interrupted_at = ""
    /\ pc \in {"returned", "save_move", "save_stat", "save_done"}
    /\ MainInterrupted(pc)
    /\ UNCHANGED <<paces, oracle_calls, save_calls, pre_temp, fn_arg, fn_ret,
                   warned, fsVars>>

\* The interrupt arrives while the temporary file is opened or written (lines
\* 291 - 292): the with block closes the file, the except clause of line 305
\* does not match, the temporary file stays as far as it was written.
InterruptInWrite ==
    /\ interrupted_at = ""
    /\ \/ /\ pc = "save_open"
          /\ \/ UNCHANGED <<temp_file, fs_log>>
             \/ /\ temp_file' = File(<<>>)
                /\ fs_log' = Append(fs_log, "open")
       \/ /\ pc = "save_dump"
          /\ \E k \in 0 .. Len(Serialize(all_data)) :
               temp_file' = File(SubSeq(Serialize(all_data), 1, k))
          /\ fs_log' = Append(fs_log, "write")
    /\ MainInterrupted(pc)
    /\ UNCHANGED <<paces, oracle_calls, save_calls, pre_temp, fn_arg, fn_ret,
                   warned, filename, final_file, pre_final, failed_at,
                   remove_failed>>

\* The interrupt arrives in the except clause of save_to_json_atomic: at line
\* 306 it goes on to main; inside os.remove (line 309) the bare except of
\* line 310 swallows it and line 312 raises the original exception again.
InterruptInCleanup ==
    /\ interrupted_at = ""
    /\ pc = "save_except"
    /\ \/ /\ MainInterrupted(pc)
          /\ UNCHANGED <<temp_file, fs_log>>
       \/ /\ temp_file.exists
          /\ interrupted_at' = pc
          /\ log_lines' = Append(log_lines, "Failed to save file")
          /\ \/ /\ temp_file' = Absent
                /\ fs_log' = Append(fs_log, "remove")
             \/ UNCHANGED <<temp_file, fs_log>>
          /\ pc' = "main_except"
          /\ UNCHANGED <<exit_code, fetchVars, retryVars, loopHist>>
    /\ UNCHANGED <<paces, oracle_calls, save_calls, pre_temp, fn_arg, fn_ret,
                   warned, filename, final_file, pre_final, failed_at,
                   remove_failed>>

NextInterrupt ==
    \/ Next
    \/ InterruptInFetch
    \/ InterruptInMain
    \/ InterruptInWrite
    \/ InterruptInCleanup

SpecInterrupt == Init /\ [][NextInterrupt]_vars

(***************************************************************************)
(* One call fetch_with_retry(symbol, max_retries) on its own               *)
(***************************************************************************)
InitFetch ==
    /\ pc = "fwr_top"
    /\ exit_code = Running
    /\ warned = FALSE
    /\ date_string = <<0, 0, 0>>
    /\ all_data = NoSnapshot
    /\ success_count = 0 /\ fail_count = 0 /\ invalid_count = 0
    /\ i = 1
    /\ history = NoHistory
    /\ stock_data = NoRecord
    /\ max_retries \in 1 .. MaxRetriesBound
    /\ per_symbol_timeout = DefaultPerSymbolTimeout
    /\ attempt = 0 /\ elapsed = 0
    /\ filename = NoName
    /\ final_file = Absent
    /\ temp_file = Absent
    /\ fetched = <<NIFTY_50_SYMBOLS[1]>> /\ outcomes = <<>>
    /\ qlog = <<>> /\ sleeps = 0
    /\ pre_final = final_file
    /\ fs_log = <<>> /\ failed_at = "" /\ remove_failed = FALSE
    /\ pre_temp = temp_file
    /\ log_lines = <<>> /\ paces = 0 /\ oracle_calls = 0 /\ save_calls = 0
    /\ interrupted_at = ""
    /\ fn_arg = NoArg /\ fn_ret = NoRet

NextFetch ==
    \/ FwrExhausted
    \/ FwrTimeout
    \/ FwrQuery
    \/ FwrBackoff

SpecFetch == InitFetch /\ [][NextFetch]_vars

(***************************************************************************)
(* The pure functions on their own: one call on an argument drawn from a   *)
(* bounded set                                                             *)
(***************************************************************************)
\* Nothing of the run has happened.
NothingRun ==
    /\ exit_code = Running
    /\ warned = FALSE
    /\ date_string = <<0, 0, 0>>
    /\ all_data = NoSnapshot
    /\ success_count = 0 /\ fail_count = 0 /\ invalid_count = 0
    /\ i = 0
    /\ history = NoHistory
    /\ stock_data = NoRecord
    /\ max_retries = 0 /\ per_symbol_timeout = 0 /\ attempt = 0 /\ elapsed = 0
    /\ filename = NoName
    /\ final_file = Absent
    /\ temp_file = Absent
    /\ fetched = <<>> /\ outcomes = <<>>
    /\ qlog = <<>> /\ sleeps = 0
    /\ pre_final = final_file
    /\ fs_log = <<>> /\ failed_at = "" /\ remove_failed = FALSE
    /\ pre_temp = temp_file
    /\ log_lines = <<>> /\ paces = 0 /\ oracle_calls = 0 /\ save_calls = 0
    /\ interrupted_at = ""

callVars == <<exit_code, warned, fetchVars, retryVars, loopHist, fsVars,
              runHist, pre_temp, interrupted_at>>

\* datetime.now() of the call: the days up to 2025-11-12.
OracleTodays == { MinusDays(<<2025, 11, 12>>, k) : k \in 0 .. OracleDays }

\* get_actual_trading_date() under a probe result and a current date.
InitOracle ==
    /\ NothingRun
    /\ pc = "oracle_call"
    /\ fn_arg \in [probe : QueryResults, today : OracleTodays]
    /\ fn_ret = NoRet

OracleCall ==
    /\ pc = "oracle_call"
    /\ fn_ret' = get_actual_trading_date(fn_arg.probe, fn_arg.today)
    /\ pc' = "oracle_done"
    /\ UNCHANGED <<fn_arg, callVars>>

NextOracle == OracleCall

SpecOracle == InitOracle /\ [][NextOracle]_vars

\* The well-formed dates of 2024 and 2025.
CalendarDates ==
    { dt \in (2024 .. 2025) \X (1 .. 12) \X (1 .. 31) :
        dt[3] <= DaysInMonth(dt[1], dt[2]) }

\* is_market_open(date_str)
InitCalendar ==
    /\ NothingRun
    /\ pc = "calendar_call"
    /\ fn_arg \in CalendarDates
    /\ fn_ret = NoRet

CalendarCall ==
    /\ pc = "calendar_call"
    /\ fn_ret' = is_market_open(fn_arg)
    /\ pc' = "calendar_done"
    /\ UNCHANGED <<fn_arg, callVars>>

NextCalendar == CalendarCall

SpecCalendar == InitCalendar /\ [][NextCalendar]_vars

\* Field values of a candidate record, in hundredths: missing, not a number,
\* zero, two ordinary prices, the ceiling, just above the ceiling.
ValidatorPrices ==
    { None, NaN, Num(0), Num(100), Num(200), CeilingValue,
      Num(CeilingValue.v + 1) }
ValidatorVolumes == { None, Num(0), Num(100) }
RecordKeys == {"symbol", "open", "high", "low", "close", "volume"}

\* The dicts validate_stock_data is called on: every key present, or one absent.
ValidatorRecords ==
    { [k \in keys |->
         [symbol |-> <<"RELIANCE">>, open |-> o, high |-> h, low |-> l,
          close |-> c, volume |-> v][k]] :
        o \in ValidatorPrices, h \in ValidatorPrices, l \in ValidatorPrices,
        c \in ValidatorPrices, v \in ValidatorVolumes,
        keys \in {RecordKeys} \cup { RecordKeys \ {k} : k \in RecordKeys } }

\* validate_stock_data(stock_data)
InitValidate ==
    /\ NothingRun
    /\ pc = "validate_call"
    /\ fn_arg \in ValidatorRecords
    /\ fn_ret = NoRet

ValidateCall ==
    /\ pc = "validate_call"
    /\ fn_ret' = validate_stock_data(fn_arg)
    /\ pc' = "validate_done"
    /\ UNCHANGED <<fn_arg, callVars>>

NextValidate == ValidateCall

SpecValidate == InitValidate /\ [][NextValidate]_vars

(***************************************************************************)
(* Properties                                                              *)
(***************************************************************************)
Count(seq, tag) == Cardinality({ k \in DOMAIN seq : seq[k] = tag })

\* fetch_stock_data has left its loop (it returned, or main went on).
LoopDone ==
    pc \in {"returned", "save_open", "save_dump", "save_move", "save_stat",
            "save_done", "save_except", "main_except", "exited"}

NewFile == File(Serialize(all_data))

\* save_to_json_atomic raised while opening or writing the temporary file,
\* and the exception has reached the caller.
WriteFailurePropagated ==
    /\ pc \in {"main_except", "exited"}
    /\ failed_at \in {"open", "dump"}

\* C1 as stated: after a failure of the write phase has been propagated, the
\* final path is absent or holds its content from before the call, and the
\* temporary path does not exist.
C1_Original ==
    WriteFailurePropagated =>
        /\ (~final_file.exists \/ final_file = pre_final)
        /\ ~temp_file.exists

\* C1 amended: after a failure of the write phase has been propagated, the
\* final path is absent or holds its content from before the call, and the
\* temporary path does not exist unless os.remove of it raised (which the
\* cleanup swallows).
C1_TempRemovedUnlessRemoveFailed ==
    WriteFailurePropagated =>
        /\ (~final_file.exists \/ final_file = pre_final)
        /\ (temp_file.exists => remove_failed)

\* A serialisation failure whose partial temporary file has been removed,
\* with the earlier snapshot still in place.
C1_Witness ==
    /\ pc = "main_except"
    /\ failed_at = "dump"
    /\ "remove" \in { fs_log[k] : k \in DOMAIN fs_log }
    /\ ~temp_file.exists
    /\ final_file = OldFile

C3_ExceptionsContained ==
    /\ fetched = SubSeq(NIFTY_50_SYMBOLS, 1, Len(fetched))
    /\ LoopDone =>
         /\ fetched = NIFTY_50_SYMBOLS
         /\ Len(outcomes) = Len(NIFTY_50_SYMBOLS)
         /\ fail_count >= Count(outcomes, "exception")

\* The first symbol raised, and the function still returned after the last.
C3_Witness ==
    /\ pc = "returned"
    /\ outcomes[1] = "exception"
    /\ fetched = NIFTY_50_SYMBOLS
    /\ Len(all_data.stocks) >= 1

\* C4: in the returned snapshot fetch_date is the largest date among the
\* accepted records if there is one, and the oracle's provisional date
\* otherwise.
C4_FetchDateIsMaxDate ==
    pc = "returned" =>
        IF all_data.stocks # <<>>
        THEN /\ \E k \in DOMAIN all_data.stocks :
                  all_data.stocks[k].date = all_data.fetch_date
             /\ \A k \in DOMAIN all_data.stocks :
                  ~StrLess(all_data.fetch_date, all_data.stocks[k].date)
        ELSE all_data.fetch_date = date_string

\* Two accepted records, the later date second, and a provisional date that
\* the correction replaced.
C4_Witness ==
    /\ pc = "returned"
    /\ Len(all_data.stocks) >= 2
    /\ StrLess(all_data.stocks[1].date, all_data.stocks[2].date)
    /\ all_data.fetch_date # date_string

TwoEmptyQueries ==
    /\ pc = "fetched"
    /\ Len(qlog) >= 2
    /\ qlog[1].res = Empty
    /\ qlog[2].res = Empty

\* C5 as stated: with the default max_retries, when the first two queries
\* return an empty window (the provider would return data on a third), the
\* call ends after two backoff sleeps with the window of a third query.
C5_Original ==
    (max_retries = DefaultMaxRetries /\ TwoEmptyQueries) =>
        /\ sleeps = 2
        /\ Len(qlog) = 3
        /\ qlog[3].res.kind = "data"
        /\ history = qlog[3].res

\* C5 amended: max_retries counts attempts.  With the default of 2, when both
\* queries return an empty window exactly one backoff sleep elapses, no third
\* query is made and the call returns None.  Two backoff sleeps followed by
\* the window of a third query happen only in a call with max_retries >= 3
\* whose third query is made (within the budget) and returns data.
C5_TwoAttemptsOneBackoff ==
    /\ Len(qlog) <= max_retries
    /\ (max_retries = DefaultMaxRetries /\ TwoEmptyQueries) =>
         /\ sleeps = 1
         /\ Len(qlog) = 2
         /\ history = NoHistory
    /\ (TwoEmptyQueries /\ Len(qlog) = 3 /\ qlog[3].res.kind = "data") =>
         /\ max_retries >= 3
         /\ sleeps = 2
         /\ history = qlog[3].res

\* Both queries of a default call came back empty and the call has returned.
C5_Witness ==
    /\ max_retries = DefaultMaxRetries
    /\ TwoEmptyQueries
    /\ sleeps = 1
    /\ history = NoHistory

\* C6: no provider query starts once the elapsed time exceeds the budget,
\* and a call that ends without data returns None; in particular a first
\* query that outlasts the budget without data is the only query.
C6_NoQueryAfterBudget ==
    /\ \A k \in DOMAIN qlog : qlog[k].start <= per_symbol_timeout
    /\ (qlog # <<>> /\ qlog[1].took > per_symbol_timeout
        /\ qlog[1].res.kind # "data") => Len(qlog) = 1
    /\ (pc = "fetched" /\ qlog # <<>> /\ qlog[Len(qlog)].res.kind # "data")
         => history = NoHistory

\* The first query took longer than the budget and was empty; attempts
\* remained, and after the backoff the check ended the call.
C6_Witness ==
    /\ pc = "fetched"
    /\ Len(qlog) = 1
    /\ qlog[1].took > per_symbol_timeout
    /\ qlog[1].res = Empty
    /\ sleeps = 1
    /\ attempt < max_retries
    /\ history = NoHistory

\* C7: every processed symbol moved exactly one counter by one: successes
\* are the appended records, invalid the rejected ones, failures the symbols
\* without data or with a caught exception; at the return the three counters
\* add up to the size of the universe.
C7_OneCountPerSymbol ==
    pc # "main" =>
        /\ success_count = Count(outcomes, "success")
        /\ success_count = Len(all_data.stocks)
        /\ invalid_count = Count(outcomes, "invalid")
        /\ fail_count = Count(outcomes, "nodata") + Count(outcomes, "exception")
        /\ success_count + fail_count + invalid_count = Len(outcomes)
        /\ pc = "loop" => Len(outcomes) = i - 1
        /\ pc = "returned" =>
             success_count + fail_count + invalid_count = Len(NIFTY_50_SYMBOLS)

\* One success, one rejection and one failure, as in the end-to-end example.
C7_Witness ==
    /\ pc = "returned"
    /\ success_count = 1
    /\ invalid_count = 1
    /\ fail_count = 1

\* C8: in the snapshot that fetch_stock_data returns and main hands to the
\* persister, total_stocks is the length of stocks.
C8_TotalStocksIsLength ==
    LoopDone => all_data.total_stocks = Len(all_data.stocks)

\* A returned snapshot with an accepted record, a rejected one and a caught
\* exception.
C8_Witness ==
    /\ pc = "returned"
    /\ Count(outcomes, "exception") >= 1
    /\ Count(outcomes, "invalid") >= 1
    /\ all_data.total_stocks = 1

RecordSound(s) ==
    /\ \A k \in OHLC : IsNum(s[k]) /\ s[k].v > 0
    /\ s["low"].v <= s["high"].v
    /\ s["close"].v <= PriceCeiling * 100

\* C9: every record in stocks has four present, strictly positive prices,
\* low <= high and close <= 100000.
C9_AcceptedRecordsSound ==
    \A k \in DOMAIN all_data.stocks : RecordSound(all_data.stocks[k])

\* C10: a run that ends with the new snapshot (at least one record) complete
\* at the final path exits with code 0.
C10_PersistedExitsZero ==
    (/\ pc = "exited"
     /\ Len(all_data.stocks) >= 1
     /\ final_file = NewFile) => exit_code = 0

(***************************************************************************)
(* C11                                                                     *)
(***************************************************************************)
\* C11: once fetch_stock_data has returned a snapshot without any accepted
\* record, save_to_json_atomic is never called and neither the temporary nor
\* the final path is created or changed, and when the process has exited its
\* exit code is 1 and the line "No stocks fetched - exiting with error" was
\* logged before the exit.
C11_NoStocksExitsOneWithoutSave ==
    (LoopDone /\ all_data.stocks = <<>>) =>
        /\ pc \in {"returned", "exited"}
        /\ save_calls = 0
        /\ filename = NoName
        /\ fs_log = <<>>
        /\ final_file = pre_final
        /\ temp_file = pre_temp
        /\ pc = "exited" =>
              /\ exit_code = 1
              /\ log_lines = <<"No stocks fetched - exiting with error">>

\* A run in which every row failed validation has exited; the files an earlier
\* run left are in place.
C11_Witness ==
    /\ pc = "exited"
    /\ all_data.stocks = <<>>
    /\ Count(outcomes, "invalid") = Len(NIFTY_50_SYMBOLS)
    /\ exit_code = 1
    /\ final_file = OldFile
    /\ temp_file = StaleTemp

(***************************************************************************)
(* C12                                                                     *)
(***************************************************************************)
\* The rename of line 293 has taken place.
Renamed == \E k \in DOMAIN fs_log : fs_log[k] = "move"

\* C12: a KeyboardInterrupt that arrives while main's try body runs and before
\* the rename has completed is not absorbed by the loop: no further step of
\* the run is taken (the process has exited, or - when os.remove swallowed
\* the interrupt - the original exception is on its way to main's handler),
\* the exit code is 1, and the final path is as it was before the run.
C12_InterruptStopsRunExitOne ==
    (interrupted_at # "" /\ ~Renamed) =>
        /\ pc \in {"exited", "main_except"}
        /\ pc = "main_except" => interrupted_at = "save_except"
        /\ pc = "exited" => exit_code = 1
        /\ final_file = pre_final
        /\ final_file \in {Absent, OldFile}

\* The interrupt arrived in the middle of json.dump: the process has exited
\* with 1, the temporary file holds a part of the snapshot, the final path
\* holds the snapshot of the earlier run.
C12_Witness ==
    /\ interrupted_at = "save_dump"
    /\ pc = "exited"
    /\ exit_code = 1
    /\ temp_file.exists
    /\ Len(temp_file.content) >= 2
    /\ temp_file.content[Len(temp_file.content)] # Trailer
    /\ final_file = OldFile

(***************************************************************************)
(* C13                                                                     *)
(***************************************************************************)
RECURSIVE IsSubsequence(_, _)
IsSubsequence(s, t) ==
    IF s = <<>> THEN TRUE
    ELSE IF t = <<>> THEN FALSE
    ELSE IF Head(s) = Head(t) THEN IsSubsequence(Tail(s), Tail(t))
    ELSE IsSubsequence(s, Tail(t))

StockSymbols == [k \in DOMAIN all_data.stocks |-> all_data.stocks[k].symbol]
ProcessedSymbols == [k \in DOMAIN fetched |-> StripSuffix(fetched[k])]

\* C13: at every point of the run the symbols processed so far are a prefix
\* of the symbol universe, and the symbols of stocks are a subsequence of
\* that prefix (suffix stripped) in which no symbol occurs twice.
C13_StocksInUniverseOrder ==
    /\ Len(fetched) <= Len(NIFTY_50_SYMBOLS)
    /\ fetched = SubSeq(NIFTY_50_SYMBOLS, 1, Len(fetched))
    /\ IsSubsequence(StockSymbols, ProcessedSymbols)
    /\ \A j, k \in DOMAIN StockSymbols :
         j # k => StockSymbols[j] # StockSymbols[k]

\* Two records are in stocks after a symbol between them was not accepted.
C13_Witness ==
    /\ Len(all_data.stocks) = 2
    /\ Len(fetched) = 3
    /\ outcomes[2] # "success"
    /\ StockSymbols = <<ProcessedSymbols[1], ProcessedSymbols[3]>>

(***************************************************************************)
(* C14                                                                     *)
(***************************************************************************)
\* C14: whenever the provider is about to be queried for a symbol, one pacing
\* delay has elapsed for every symbol processed before it, whatever its
\* outcome was.
C14_PacedAfterEverySymbol ==
    pc = "fwr_top" => paces = Len(outcomes)

(***************************************************************************)
(* C15                                                                     *)
(***************************************************************************)
\* C15: get_actual_trading_date returns the date of the last row of the probe
\* window when the probe returned rows; when the probe raised or returned
\* an empty window it returns the first of today, today-1, ..., today-6 on
\* which is_market_open holds, and today when it holds on none of them.
C15_OracleReturnsProbeOrCalendarDate ==
    pc = "oracle_done" =>
        LET probe == fn_arg.probe
            today == fn_arg.today
            Open(k) == is_market_open(MinusDays(today, k))
            Back == 0 .. (FallbackDays - 1)
        IN  IF probe.kind = "data"
            THEN fn_ret = probe.window[Len(probe.window)].date
            ELSE IF \E k \in Back : Open(k)
            THEN \E k \in Back :
                    /\ Open(k)
                    /\ \A j \in Back : j < k => ~Open(j)
                    /\ fn_ret = MinusDays(today, k)
            ELSE fn_ret = today

\* The probe raised on Thursday 2025-10-23, the third holiday in a row: the
\* walk went back to Monday 2025-10-20.
C15_Witness ==
    /\ pc = "oracle_done"
    /\ fn_arg = [probe |-> Raise, today |-> <<2025, 10, 23>>]
    /\ fn_ret = <<2025, 10, 20>>

(***************************************************************************)
(* C18                                                                     *)
(***************************************************************************)
\* The day of the week by Sakamoto's method: Sunday is 0, Saturday is 6.
DayOfWeek(dt) ==
    LET t == <<0, 3, 2, 5, 0, 3, 5, 1, 4, 6, 2, 4>>
        y == IF dt[2] < 3 THEN dt[1] - 1 ELSE dt[1]
    IN  (y + (y \div 4) - (y \div 100) + (y \div 400) + t[dt[2]] + dt[3]) % 7

\* C18: is_market_open is false on every date of the holiday set, false on
\* every Saturday and Sunday, and true on every other date.
C18_OpenExceptHolidaysAndWeekends ==
    pc = "calendar_done" =>
        fn_ret = (fn_arg \notin NSE_HOLIDAYS_2025 /\ DayOfWeek(fn_arg) \notin {0, 6})

\* Tuesday 2025-10-21 is in the holiday set: closed on a weekday.
C18_Witness ==
    /\ pc = "calendar_done"
    /\ fn_arg = <<2025, 10, 21>>
    /\ DayOfWeek(fn_arg) = 2
    /\ fn_ret = FALSE

(***************************************************************************)
(* C16                                                                     *)
(***************************************************************************)
\* None of open/high/low/close is missing, all four are strictly positive,
\* high >= low and close <= 100000.
AcceptConditions(r) ==
    /\ OHLC \subseteq DOMAIN r
    /\ \A k \in OHLC : IsNum(r[k]) /\ r[k].v > 0
    /\ r["high"].v >= r["low"].v
    /\ r["close"].v <= PriceCeiling * 100

\* C16: validate_stock_data returns True exactly on the records that meet the
\* accept conditions, whatever their volume is, and False on all others.
C16_AcceptsExactlySoundRecords ==
    pc = "validate_done" => (fn_ret = AcceptConditions(fn_arg))

(***************************************************************************)
(* C17                                                                     *)
(***************************************************************************)
\* C17: save_to_json_atomic is only called on a snapshot with at least one
\* record, and a file this run has put at the final path holds at least one
\* record, its fetch_date is the greatest date among the records it holds,
\* and the file name is nifty50_<that date>.json.
C17_PersistedDateIsFromData ==
    /\ save_calls > 0 => all_data.stocks # <<>>
    /\ Renamed =>
         LET content == final_file.content
             header == content[1]
             records == SubSeq(content, 2, Len(content) - 1)
         IN  /\ final_file.exists
             /\ Len(content) >= 3
             /\ header.chunk = "header"
             /\ \E k \in DOMAIN records : records[k].date = header.fetch_date
             /\ \A k \in DOMAIN records :
                  ~StrLess(header.fetch_date, records[k].date)
             /\ filename = <<"nifty50_", header.fetch_date, ".json">>

\* The file at the final path holds records of two dates and carries the
\* later one, which is not the date the oracle gave.
C17_Witness ==
    /\ Renamed
    /\ Len(final_file.content) >= 4
    /\ final_file.content[2].date # final_file.content[3].date
    /\ final_file.content[1].fetch_date # date_string
    /\ filename = <<"nifty50_", final_file.content[1].fetch_date, ".json">>

StepsLeft ==
    LET perSymbol == 5 + 2 * DefaultMaxRetries
        afterLoop == 8
        symbolsLeft == Len(NIFTY_50_SYMBOLS) + 1 - i
        nextSymbols == (symbolsLeft - 1) * perSymbol + afterLoop
    IN  CASE pc = "main" -> (Len(NIFTY_50_SYMBOLS) + 1) * perSymbol + afterLoop
          [] pc = "loop" -> symbolsLeft * perSymbol + afterLoop
          [] pc = "fwr_top" ->
               nextSymbols + 4
               + (IF attempt < max_retries THEN 2 * (max_retries - attempt)
                                           ELSE 0)
          [] pc = "fwr_sleep" -> nextSymbols + 3 + 2 * (max_retries - attempt)
          [] pc = "fetched" -> nextSymbols + 3
          [] pc = "validate" -> nextSymbols + 2
          [] pc = "pace" -> nextSymbols + 1
          [] pc = "returned" -> 7
          [] pc = "save_open" -> 6
          [] pc = "save_dump" -> 5
          [] pc = "save_move" -> 4
          [] pc = "save_stat" -> 3
          [] pc \in {"save_done", "save_except"} -> 2
          [] pc = "main_except" -> 1
          [] OTHER -> 0

\* The structure of a run, at every state.
RunStructure ==
    /\ StepsLeft >= 0
    /\ pc # "exited" => ENABLED Next
    /\ pc = "exited" => exit_code \in {0, 1}
    /\ oracle_calls = (IF pc = "main" THEN 0 ELSE 1)
    /\ pc = "main" => fetched = <<>>
    /\ Len(outcomes) \in {Len(fetched) - 1, Len(fetched)}
    /\ LoopDone =>
         /\ fetched = NIFTY_50_SYMBOLS
         /\ Len(outcomes) = Len(NIFTY_50_SYMBOLS)
    /\ save_calls \in {0, 1}
    /\ save_calls = 1 =>
         /\ LoopDone /\ pc # "returned"
         /\ all_data.total_stocks = Len(all_data.stocks)
         /\ all_data.stocks # <<>>
         /\ all_data.fetch_date = MaxDate(all_data.stocks)
    /\ save_calls = 0 => ~(pc \in {"save_open", "save_dump", "save_move",
                                   "save_stat", "save_done", "save_except"})

\* C20: every step of the run lowers the bound on the steps that are left, a
\* step exists as long as the process has not exited, and the exit sets an
\* exit status, so every run terminates; the oracle is called once, before
\* the loop; every symbol is processed once; save_to_json_atomic is called
\* at most once, after the loop and the finalisation of the snapshot, and
\* from that call on the snapshot does not change.
C20_RunTerminatesOnePass ==
    /\ []RunStructure
    /\ [][StepsLeft' < StepsLeft]_vars
    /\ [][save_calls = 1 => all_data' = all_data]_vars

\* The run has exited with status 0 after every symbol was processed once
\* and the snapshot was saved by the single call.
C20_Witness ==
    /\ pc = "exited"
    /\ exit_code = 0
    /\ oracle_calls = 1
    /\ save_calls = 1
    /\ fetched = NIFTY_50_SYMBOLS
    /\ Count(outcomes, "success") = 1
    /\ Count(outcomes, "exception") = 1

====
